---- MODULE Spec2Model ----
(***************************************************************************)
(* Social-account resolution pipeline of the legislators tracker:          *)
(*   - TwitterSearcher (name normalizer, confidence scorer, browser-driven *)
(*     web search) of pressionaapp/deputados_extractor.py,                 *)
(*   - the resolution routines extract_twitter_info (pressionaapp deputies *)
(*     and senators) and extract_social_media_links (blindagemapp deputies *)
(*     and senators).                                                      *)
(* Python str values are TLA+ strings; None is the model value NoneVal.    *)
(***************************************************************************)
EXTENDS Integers, Sequences, FiniteSets, TLC

VARIABLES
    routine,        \* which resolution routine this run executes
    pc,             \* position inside the routine
    nome,           \* civil name argument (NoneVal when not given)
    nome_parlamentar, \* parliamentary name argument
    use_google_fallback,
    twitter_url,    \* twitter_info['twitter_url'] / social_media['twitter']
    latest_tweet_url,
    social_media,   \* blindagemapp: social_media dict, platform -> URL or NoneVal
    metadata,       \* metadata / confidence_info dict: source, confidence, needs_review
    returned,       \* shape of the value handed back to the caller
    calls,          \* source adapters invoked so far, in order
    failed,         \* sources that raised or failed during this run
    apiYield,       \* URL selected from the structured API (NoneVal if none)
    siteYield,      \* URL selected from the institutional site (NoneVal if none)
    sitePass,       \* which site pass produced siteYield
    driver,         \* TwitterSearcher.driver: NoneVal or "session"
    openSessions,   \* Chrome sessions started and not yet quit
    quitCalls,      \* number of driver.quit() calls
    qi,             \* index of the next search query
    searchResult,   \* value returned by search_twitter_account
    searchExit,     \* how search_twitter_account ended
    rejected,       \* candidates the scorer rejected during the web search
    sc_url,         \* scorer run: candidate URL
    sc_nome,        \* scorer run: civil name
    sc_parl,        \* scorer run: parliamentary name
    sc_out,         \* scorer run: value returned by _should_accept_url
    sc_details,     \* scorer run: score_details['details'] of that evaluation
    sc_out2,        \* scorer run: value returned by a second evaluation
    sc_details2,    \* scorer run: details of the second evaluation
    g_log,          \* Grok request: responses received so far, one per request issued
    g_sleeps,       \* Grok request: durations of the time.sleep calls made so far
    g_exit,         \* Grok request: how _make_request ended
    n_in,           \* normalizer run: the name given
    n_out,          \* normalizer run: _normalize_name(n_in)
    n_twice,        \* normalizer run: _normalize_name applied to n_out
    c_url,          \* canonicalizer run: the URL given
    c_out,          \* canonicalizer run: _clean_twitter_url(c_url)
    q_last,         \* how the latest _search_google call went (NoneVal before the first)
    b_update,       \* batch run: update_existing argument
    b_extract,      \* batch run: extract_social_media argument
    b_list,         \* batch run: ids of the fetched legislator list (0: entry without id)
    b_i,            \* batch run: index of the next list entry
    b_db,           \* batch run: the Deputado / Senador table, id -> row
    b_db0,          \* batch run: the table as it was before the call
    b_latest,       \* batch run: id -> result of the latest resolution in this run
    b_counts,       \* batch run: <<created_count, updated_count>>
    b_ret,          \* batch run: value returned (<<>> while running)
    r_results,      \* Grok ranking: the "results" list of the service's response
    r_out,          \* Grok ranking: the profile find_twitter_profile returns
    w_tiers         \* blindagemapp: tiers of the candidates search_deputy_social_media accepted

\* state of the resolution routines and of the search
pipelineVars == <<nome, nome_parlamentar, use_google_fallback, twitter_url,
                  latest_tweet_url, social_media, metadata, returned, calls, failed, apiYield,
                  siteYield, sitePass, driver, openSessions, quitCalls, qi,
                  searchResult, searchExit, rejected, q_last>>

scorerVars == <<sc_url, sc_nome, sc_parl, sc_out, sc_details, sc_out2, sc_details2>>

grokVars == <<g_log, g_sleeps, g_exit>>

normVars == <<n_in, n_out, n_twice>>

cleanVars == <<c_url, c_out>>

batchVars == <<b_update, b_extract, b_list, b_i, b_db, b_db0, b_latest, b_counts, b_ret>>

\* state of the batch routines and of the further direct evaluations
rankVars == <<r_results, r_out>>

extraVars == <<batchVars, rankVars, w_tiers>>

\* what the resolution routines never touch
toolVars == <<sc_details, sc_out2, sc_details2, grokVars, normVars, cleanVars, extraVars>>

vars == <<routine, pc, pipelineVars, scorerVars, grokVars, normVars, cleanVars, extraVars>>

NoneVal == "<None>"

-----------------------------------------------------------------------------
(* Python str primitives *)

Ch(s, i) == SubSeq(s, i, i)

\* p in s
Contains(s, p) ==
    \E i \in 1..(Len(s) - Len(p) + 1) : SubSeq(s, i, i + Len(p) - 1) = p

\* s[i-1:].startswith(p), with i a 1-based index
MatchAt(s, i, p) == i + Len(p) - 1 <= Len(s) /\ SubSeq(s, i, i + Len(p) - 1) = p

StartsWith(s, p) == Len(p) <= Len(s) /\ SubSeq(s, 1, Len(p)) = p

EndsWith(s, p) == Len(p) <= Len(s) /\ SubSeq(s, Len(s) - Len(p) + 1, Len(s)) = p

UpperChars == "ABCDEFGHIJKLMNOPQRSTUVWXYZÁÉÍÓÚÂÊÔÃÕÇ"
LowerChars == "abcdefghijklmnopqrstuvwxyzáéíóúâêôãõç"

LowerChar(c) ==
    IF \E i \in 1..Len(UpperChars) : Ch(UpperChars, i) = c
    THEN Ch(LowerChars, CHOOSE i \in 1..Len(UpperChars) : Ch(UpperChars, i) = c)
    ELSE c

RECURSIVE Lower(_)
\* str.lower()
Lower(s) == IF s = "" THEN "" ELSE LowerChar(Ch(s, 1)) \o Lower(SubSeq(s, 2, Len(s)))

Digits == "0123456789"
IsDigit(c) == \E i \in 1..Len(Digits) : Ch(Digits, i) = c

IsSpace(c) == c \in {" ", "\t", "\n", "\r"}

\* \w of the re module (str patterns): letters, digits, underscore
WordChars == LowerChars \o UpperChars \o Digits \o "_ª"
IsWordChar(c) == \E i \in 1..Len(WordChars) : Ch(WordChars, i) = c

\* \b at offset p (between character p and character p+1)
WordBoundary(s, p) ==
    (p >= 1 /\ IsWordChar(Ch(s, p))) # (p < Len(s) /\ IsWordChar(Ch(s, p + 1)))

RECURSIVE LStrip(_)
LStrip(s) == IF s # "" /\ IsSpace(Ch(s, 1)) THEN LStrip(SubSeq(s, 2, Len(s))) ELSE s

RECURSIVE RStrip(_)
RStrip(s) == IF s # "" /\ IsSpace(Ch(s, Len(s))) THEN RStrip(SubSeq(s, 1, Len(s) - 1)) ELSE s

\* str.strip()
Strip(s) == RStrip(LStrip(s))

RECURSIVE SplitFrom(_, _, _)
\* str.split(): tokens separated by runs of whitespace; cur is the token being read
SplitFrom(s, i, cur) ==
    IF i > Len(s)
    THEN IF cur = "" THEN <<>> ELSE <<cur>>
    ELSE IF IsSpace(Ch(s, i))
         THEN IF cur = "" THEN SplitFrom(s, i + 1, "")
              ELSE <<cur>> \o SplitFrom(s, i + 1, "")
         ELSE SplitFrom(s, i + 1, cur \o Ch(s, i))

Split(s) == SplitFrom(s, 1, "")

SelectLong(parts) == SelectSeq(parts, LAMBDA p : Len(p) > 2)

Range(seq) == {seq[i] : i \in 1..Len(seq)}

-----------------------------------------------------------------------------
(* TwitterSearcher._normalize_name *)

\* unicodedata.normalize('NFD', ...) followed by dropping category Mn
AccentedChars == "áéíóúâêôãõç"
BaseChars     == "aeiouaeoaoc"

StripAccentChar(c) ==
    IF \E i \in 1..Len(AccentedChars) : Ch(AccentedChars, i) = c
    THEN Ch(BaseChars, CHOOSE i \in 1..Len(AccentedChars) : Ch(AccentedChars, i) = c)
    ELSE c

RECURSIVE StripAccents(_)
StripAccents(s) ==
    IF s = "" THEN "" ELSE StripAccentChar(Ch(s, 1)) \o StripAccents(SubSeq(s, 2, Len(s)))

\* alternatives of the prefix pattern, in the order the regex tries them
TitlePrefixes == <<"dr", "dra", "prof", "profª", "professor", "professora",
                   "sr", "sra", "deputado", "deputada">>

\* alternatives that match at offset p with \b on both sides
PrefixHits(s, p) ==
    {k \in 1..Len(TitlePrefixes) :
        /\ WordBoundary(s, p)
        /\ MatchAt(s, p + 1, TitlePrefixes[k])
        /\ WordBoundary(s, p + Len(TitlePrefixes[k]))}

RECURSIVE SkipSpaces(_, _)
\* offset after the greedy \s* starting at offset p
SkipSpaces(s, p) == IF p < Len(s) /\ IsSpace(Ch(s, p + 1)) THEN SkipSpaces(s, p + 1) ELSE p

\* end offset of the match of  \b(...)\b\.?\s*  starting at offset p
\* the alternative the regex takes among those that match
FirstHit(hits) == CHOOSE k \in hits : \A j \in hits : k <= j

\* offset after the optional "." that may follow offset e
SkipDot(s, e) == IF e < Len(s) /\ Ch(s, e + 1) = "." THEN e + 1 ELSE e

PrefixMatchEnd(s, p) ==
    SkipSpaces(s, SkipDot(s, p + Len(TitlePrefixes[FirstHit(PrefixHits(s, p))])))

\* RemovePrefixes that drops only the first match (re.sub with count=1)
RemovePrefixes_FirstOnly(s, p) ==
    LET hits == {q \in p..(Len(s) - 1) : PrefixHits(s, q) # {}}
    IN  IF hits = {} THEN SubSeq(s, p + 1, Len(s))
        ELSE SubSeq(s, p + 1, FirstHit(hits))
             \o SubSeq(s, PrefixMatchEnd(s, FirstHit(hits)) + 1, Len(s))

RECURSIVE RemovePrefixes(_, _)
\* re.sub(pattern, '', s): scan from offset p, dropping every match
RemovePrefixes(s, p) ==
    IF p >= Len(s) THEN ""
    ELSE IF PrefixHits(s, p) # {}
         THEN RemovePrefixes(s, PrefixMatchEnd(s, p))
         ELSE Ch(s, p + 1) \o RemovePrefixes(s, p + 1)

_normalize_name(name) == Strip(RemovePrefixes(StripAccents(Lower(name)), 0))

-----------------------------------------------------------------------------
(* TwitterSearcher._extract_name_parts *)

\* the dict built from the two lists of significant parts
NameParts(full_parts, parl_parts) ==
        [ full_parts |-> full_parts,
          parl_parts |-> parl_parts,
          first_name |-> IF Len(full_parts) > 0 THEN full_parts[1] ELSE "",
          last_name  |-> IF Len(full_parts) > 1 THEN full_parts[Len(full_parts)] ELSE "",
          parl_first |-> IF Len(parl_parts) > 0 THEN parl_parts[1] ELSE "",
          parl_last  |-> IF Len(parl_parts) > 1 THEN parl_parts[Len(parl_parts)] ELSE "",
          all_significant |-> Range(full_parts) \cup Range(parl_parts) ]

_extract_name_parts(n, np) ==
    NameParts(SelectLong(Split(_normalize_name(n))), SelectLong(Split(_normalize_name(np))))

-----------------------------------------------------------------------------
(* TwitterSearcher._calculate_url_confidence, platform 'twitter' *)

\* [^/\s?]
IsUserChar(c) == c # "/" /\ c # "?" /\ ~IsSpace(c)

RECURSIVE UserRunEnd(_, _)
\* last index of the greedy run [^/\s?]+ that starts at index i
UserRunEnd(s, i) == IF i < Len(s) /\ IsUserChar(Ch(s, i + 1)) THEN UserRunEnd(s, i + 1) ELSE i

\* index of the first username character for a match of (?:twitter|x)\.com/ at index i, 0 if none
HostMatchAt(s, i) ==
    IF MatchAt(s, i, "twitter.com/") /\ i + 12 <= Len(s) /\ IsUserChar(Ch(s, i + 12))
    THEN i + 12
    ELSE IF MatchAt(s, i, "x.com/") /\ i + 6 <= Len(s) /\ IsUserChar(Ch(s, i + 6))
         THEN i + 6
         ELSE 0

\* re.search(r'(?:twitter|x)\.com/([^/\s?]+)', url_lower): group 1 of the leftmost match, "" if no match
TwitterUsername(url_lower) ==
    LET hits == {i \in 1..Len(url_lower) : HostMatchAt(url_lower, i) # 0}
    IN  IF hits = {} THEN ""
        ELSE LET i == CHOOSE i \in hits : \A j \in hits : i <= j
                 u == HostMatchAt(url_lower, i)
             IN  SubSeq(url_lower, u, UserRunEnd(url_lower, u))

official_keywords == <<"deputado", "deputada", "oficial", "brazil", "brasil", "congresso", "camara">>

\* \d{4,}
HasDigitRun(u) ==
    \E i \in 1..(Len(u) - 3) : \A j \in i..(i + 3) : IsDigit(Ch(u, j))

\* re.search(pattern, username) for each entry of suspicious_patterns, in order
SuspiciousHits(u) ==
    << HasDigitRun(u),
       Contains(u, "fan"),
       Contains(u, "fake") \/ Contains(u, "falso"),
       Contains(u, "parody") \/ Contains(u, "parodia"),
       EndsWith(u, "_br") \/ EndsWith(u, "brazil") >>

Count(S) == Cardinality(S)

\* NamePartsScore with two points for each part
NamePartsScore_TwoPoints(np, username) ==
    2 * Count({p \in np.all_significant : Contains(username, p)})

NamePartsScore(np, username) ==
    3 * Count({p \in np.all_significant : Contains(username, p)})

FirstLastBonus == 5

\* FirstLastScore that requires the two names to be adjacent in the username
FirstLastScore_Adjacent(np, username) ==
    IF np.first_name # "" /\ np.last_name # ""
       /\ Contains(username, np.first_name \o "_" \o np.last_name)
    THEN FirstLastBonus ELSE 0

FirstLastScore(np, username) ==
    IF np.first_name # "" /\ np.last_name # ""
       /\ Contains(username, np.first_name) /\ Contains(username, np.last_name)
    THEN FirstLastBonus ELSE 0

ParlScore(np, username) ==
    (IF np.parl_first # "" /\ Contains(username, np.parl_first) THEN 2 ELSE 0)
    + (IF np.parl_last # "" /\ Contains(username, np.parl_last) THEN 2 ELSE 0)

\* KeywordScore that looks for the keywords in the username only
KeywordScore_UsernameOnly(username, url_lower) ==
    2 * Count({k \in 1..Len(official_keywords) : Contains(username, official_keywords[k])})

KeywordScore(username, url_lower) ==
    2 * Count({k \in 1..Len(official_keywords) :
                  Contains(username, official_keywords[k]) \/ Contains(url_lower, official_keywords[k])})

SuspiciousPenalty(username) ==
    3 * Count({k \in 1..5 : SuspiciousHits(username)[k]})

\* the score once url_lower and username are known
ScoreOf(np, username, url_lower) ==
    NamePartsScore(np, username) + FirstLastScore(np, username) + ParlScore(np, username)
    + KeywordScore(username, url_lower) - SuspiciousPenalty(username)

UrlScore(url, np) == ScoreOf(np, TwitterUsername(Lower(url)), Lower(url))

\* the orders in which a list built from the set S can enumerate it
Orderings(S) == {f \in [1..Cardinality(S) -> S] : \A x \in S : \E i \in DOMAIN f : f[i] = x}

\* the sub-list of msgs whose flag is set
Keep(msgs, flags) == SelectSeq(msgs, LAMBDA m : \E k \in DOMAIN msgs : msgs[k] = m /\ flags[k])

\* details appended by the loop over all_significant, enumerated in the order given
NameDetails(order, username) ==
    Keep([k \in DOMAIN order |-> "Name part '" \o order[k] \o "' found in username"],
         [k \in DOMAIN order |-> Contains(username, order[k])])

FirstLastDetails(np, username) ==
    IF FirstLastScore(np, username) # 0
    THEN <<"Both first name '" \o np.first_name \o "' and last name '" \o np.last_name
           \o "' found">>
    ELSE <<>>

ParlDetails(np, username) ==
    (IF np.parl_first # "" /\ Contains(username, np.parl_first)
     THEN <<"Parliamentary first name '" \o np.parl_first \o "' found">> ELSE <<>>)
    \o (IF np.parl_last # "" /\ Contains(username, np.parl_last)
        THEN <<"Parliamentary last name '" \o np.parl_last \o "' found">> ELSE <<>>)

KeywordDetails(username, url_lower) ==
    Keep([k \in DOMAIN official_keywords |->
              "Official keyword '" \o official_keywords[k] \o "' found"],
         [k \in DOMAIN official_keywords |->
              Contains(username, official_keywords[k]) \/ Contains(url_lower, official_keywords[k])])

suspicious_patterns == <<"\\d{4,}", "fan|fans", "fake|falso", "parody|parodia", "_br$|brazil$">>

SuspiciousDetails(username) ==
    Keep([k \in DOMAIN suspicious_patterns |->
              "Suspicious pattern '" \o suspicious_patterns[k] \o "' found (reduces confidence)"],
         SuspiciousHits(username))

\* the details list once url_lower and username are known
DetailsOf(np, username, url_lower, order) ==
    NameDetails(order, username) \o FirstLastDetails(np, username) \o ParlDetails(np, username)
    \o KeywordDetails(username, url_lower) \o SuspiciousDetails(username)

\* score_details['details'] for url when list(set(...)) enumerated the parts in the order given
UrlDetails(url, np, order) == DetailsOf(np, TwitterUsername(Lower(url)), Lower(url), order)

HighThreshold == 8
MediumThreshold == 4

\* TierOf with strict comparisons
TierOf_Strict(score) ==
    IF score > HighThreshold THEN [confidence |-> "high", needs_review |-> FALSE]
    ELSE IF score > MediumThreshold THEN [confidence |-> "medium", needs_review |-> TRUE]
    ELSE [confidence |-> "low", needs_review |-> TRUE]

\* score -> (confidence, needs_review)
TierOf(score) ==
    IF score >= HighThreshold THEN [confidence |-> "high", needs_review |-> FALSE]
    ELSE IF score >= MediumThreshold THEN [confidence |-> "medium", needs_review |-> TRUE]
    ELSE [confidence |-> "low", needs_review |-> TRUE]

\* the tuple returned for a score and a username
Assessment(tier, score, username) ==
    [ confidence   |-> tier.confidence,
      needs_review |-> tier.needs_review,
      score        |-> score,
      username     |-> username ]

ScoreAssessment(score, username) == Assessment(TierOf(score), score, username)

_calculate_url_confidence(url, np) ==
    ScoreAssessment(UrlScore(url, np), TwitterUsername(Lower(url)))

\* the tuple _should_accept_url returns for the assessment c
Verdict(c) ==
    [ should_accept |-> c.confidence # "low",
      confidence    |-> c.confidence,
      needs_review  |-> c.needs_review,
      score         |-> c.score,
      username      |-> c.username ]

\* _should_accept_url without the low-confidence rejection
_should_accept_url_AcceptAll(url, np) ==
    [Verdict(_calculate_url_confidence(url, np)) EXCEPT !.should_accept = TRUE]

(* TwitterSearcher._should_accept_url *)
_should_accept_url(url, np) == Verdict(_calculate_url_confidence(url, np))

-----------------------------------------------------------------------------
(* TwitterSearcher._clean_twitter_url and _extract_twitter_links_from_urls *)

CountChar(s, c) == Cardinality({i \in 1..Len(s) : Ch(s, i) = c})

\* s.split(c)[0]
BeforeChar(s, c) ==
    LET hits == {i \in 1..Len(s) : Ch(s, i) = c}
    IN  IF hits = {} THEN s
        ELSE SubSeq(s, 1, (CHOOSE i \in hits : \A j \in hits : i <= j) - 1)

\* '/'.join(s.split('/')[:4])
FirstFourParts(s) ==
    LET hits == {i \in 1..Len(s) : Ch(s, i) = "/"}
    IN  IF Cardinality(hits) < 4 THEN s
        ELSE SubSeq(s, 1, (CHOOSE i \in hits : Cardinality({j \in hits : j < i}) = 3) - 1)

RECURSIVE RStripSlash(_)
\* s.rstrip('/')
RStripSlash(s) == IF s # "" /\ Ch(s, Len(s)) = "/" THEN RStripSlash(SubSeq(s, 1, Len(s) - 1)) ELSE s

\* drop what follows the username of a status, with or photo URL
CutAfterUsername(u) ==
    IF (Contains(u, "/status/") \/ Contains(u, "/with/") \/ Contains(u, "/photo/"))
       /\ CountChar(u, "/") >= 3
    THEN FirstFourParts(u)
    ELSE u

\* drop trailing slashes, except for a root URL
TrimTrailingSlash(u) ==
    IF EndsWith(u, "/") /\ CountChar(u, "/") > 3 THEN RStripSlash(u) ELSE u

_clean_twitter_url(url) ==
    TrimTrailingSlash(CutAfterUsername(BeforeChar(BeforeChar(url, "?"), "#")))

\* re.search over self.twitter_patterns with re.IGNORECASE
MatchesTwitterPattern(url) ==
    LET u == Lower(url)
    IN  \E i \in 1..Len(u) :
           \/ (MatchAt(u, i, "twitter.com/") /\ i + 12 <= Len(u) /\ IsUserChar(Ch(u, i + 12)))
           \/ (MatchAt(u, i, "x.com/") /\ i + 6 <= Len(u) /\ IsUserChar(Ch(u, i + 6)))

\* twitter_links after one url has been processed; acc is the list so far
AddLink(acc, url, clean) ==
    IF MatchesTwitterPattern(url) /\ clean # "" /\ clean \notin Range(acc)
    THEN Append(acc, clean)
    ELSE acc

RECURSIVE ExtractLinks(_, _)
\* twitter_links after the urls of the list have been processed in order
ExtractLinks(urls, acc) ==
    IF urls = <<>> THEN acc
    ELSE ExtractLinks(Tail(urls), AddLink(acc, Head(urls), _clean_twitter_url(Head(urls))))

_extract_twitter_links_from_urls(urls) == ExtractLinks(urls, <<>>)

-----------------------------------------------------------------------------
(* DeputadosDataExtractor._is_official_camara_link *)

official_patterns == <<"camaradeputados", "camara.leg.br", "camaradosdeputados",
                       "UC-ZkSRh-7UEuwXJQ9UMCFJA", "/camaradeputados", "@camaradeputados",
                       "@camaradosdeputados", "camaradeputados.leg.br", "camaradeputados.com.br",
                       "camaradeputados.org.br", "camara.net.br", "camaradeputados.net.br",
                       "deputadoscamara", "camara-deputados", "camarabrasil", "congressonacional">>

\* pattern.lower() for each pattern
official_patterns_lower == [k \in 1..Len(official_patterns) |-> Lower(official_patterns[k])]

_is_official_camara_link(url) ==
    /\ url # NoneVal
    /\ url # ""
    /\ \E k \in 1..Len(official_patterns) : Contains(Lower(url), official_patterns_lower[k])

-----------------------------------------------------------------------------
(* Bounds and input pools *)

MaxApiLinks == 2      \* longest redeSocial list drawn
MaxAnchors == 2       \* most anchors on a drawn profile page
MaxResults == 2       \* most result links drawn for one search query

NumQueries == 4       \* len(search_queries) in search_twitter_account

Truthy(v) == v # NoneVal /\ v # ""

SeqsUpTo(S, n) == UNION {[1..k -> S] : k \in 0..n}

\* (civil name, parliamentary name) pairs handed to the routines
NamePairs ==
    { <<"Maria da Silva Souza", "Maria Souza">>,
      <<"Dr. José Lima", "José Lima">>,
      <<NoneVal, "Maria Souza">>,
      <<NoneVal, NoneVal>> }

\* entries of the API's redeSocial list; NoneVal is a null entry
ApiLinkPool ==
    { "https://x.com/mariasouza",
      "https://twitter.com/CamaraDeputados",
      "https://www.facebook.com/mariasouza",
      "https://mariasouza.wix.com/gabinete",
      NoneVal }

\* UrlPaginaParlamentar values of the Senate API
PaginaPool ==
    { NoneVal,
      "https://www25.senado.leg.br/web/senadores/senador/-/perfil/5672",
      "https://x.com/mariasouza" }

\* data-urlTwitter values of the widget (NoneVal: no widget or no attribute)
WidgetPool == { NoneVal, "@mariasouza", "https://twitter.com/mariasouza", "camaradeputados" }

HrefPool == { "https://twitter.com/mariasouza", "https://twitter.com/camaradeputados",
              "https://www.camara.leg.br/contato" }

\* where an anchor sits on the profile page
Regions == { "div", "main", "footer", "other" }

AnchorPool == [href : HrefPool, region : Regions]

\* profile pages: the social-media div (with its widget) and the anchors in document order
Pages ==
    { pg \in [hasDiv : BOOLEAN, widget : WidgetPool, anchors : SeqsUpTo(AnchorPool, MaxAnchors)] :
        /\ (pg.widget # NoneVal => pg.hasDiv)
        /\ \A i \in 1..Len(pg.anchors) : (pg.anchors[i].region = "div" => pg.hasDiv) }

\* hrefs of Google result links
ResultPool ==
    { "https://x.com/mariasouza_fake9921",
      "https://twitter.com/souza_oficial/status/123?lang=pt",
      "https://x.com/fanclub2024",
      "https://x.com/joselima",
      "https://www.camara.leg.br/deputados/1" }

TweetUrl == "https://x.com/i/status/1234567890"

-----------------------------------------------------------------------------
(* State after construction *)

Routines == {"pdep", "psen", "bdep", "bsen", "score", "grok", "norm", "clean",
             "xdep", "xsen", "rank"}

\* placeholder where no candidate has been assessed
NoVerdict == [ should_accept |-> FALSE, confidence |-> NoneVal, needs_review |-> FALSE,
               score |-> 0, username |-> NoneVal ]

\* search_twitter_account returned None (or has not returned)
NoResult == [ url |-> NoneVal, confidence |-> NoneVal, needs_review |-> FALSE,
              source |-> NoneVal ]

DefaultMetadata == [source |-> NoneVal, confidence |-> NoneVal, needs_review |-> FALSE]

Platforms == {"facebook", "twitter", "instagram", "youtube", "tiktok", "linkedin"}

NoSocialMedia == [p \in Platforms |-> NoneVal]

Idle ==
    /\ twitter_url = NoneVal
    /\ social_media = NoSocialMedia
    /\ latest_tweet_url = NoneVal
    /\ returned = NoneVal
    /\ calls = <<>>
    /\ failed = {}
    /\ apiYield = NoneVal
    /\ siteYield = NoneVal
    /\ sitePass = NoneVal
    /\ driver = NoneVal
    /\ openSessions = 0
    /\ quitCalls = 0
    /\ qi = 0
    /\ searchResult = NoResult
    /\ searchExit = NoneVal
    /\ rejected = {}
    /\ sc_out = NoVerdict

-----------------------------------------------------------------------------
(* pressionaapp DeputadosDataExtractor.extract_twitter_info, STEP 1 *)

IsTwitterLink(url_lower) == Contains(url_lower, "twitter.com") \/ Contains(url_lower, "x.com")

\* the loop over official_social_media: "raise" when url_item.lower() fails on a
\* null entry before a Twitter/X entry is reached, else the first Twitter/X entry
DepApiScan(links) ==
    LET stops == {i \in 1..Len(links) : links[i] = NoneVal \/ IsTwitterLink(Lower(links[i]))}
    IN  IF stops = {} THEN NoneVal
        ELSE LET i == CHOOSE i \in stops : \A j \in stops : i <= j
             IN  IF links[i] = NoneVal THEN "raise" ELSE links[i]

\* Found that forgets to fill in the metadata
Found_NoMetadata(url, source, confidence) ==
    /\ twitter_url' = url
    /\ metadata' = metadata
    /\ pc' = "tweet"

\* a source step found url: record it and go on to the latest-tweet extraction
Found(url, source, confidence) ==
    /\ twitter_url' = url
    /\ metadata' = [metadata EXCEPT !.source = source, !.confidence = confidence]
    /\ pc' = "tweet"

DepApi ==
    /\ routine = "pdep" /\ pc = "api"
    /\ calls' = Append(calls, "api")
    /\ \E links \in SeqsUpTo(ApiLinkPool, MaxApiLinks), detailsOk \in BOOLEAN :
          LET hit == IF detailsOk THEN DepApiScan(links) ELSE NoneVal
          IN  /\ (~detailsOk => links = <<>>)
              /\ IF hit \notin {NoneVal, "raise"}
                 THEN /\ Found(hit, "official_api", "high")
                      /\ apiYield' = hit
                      /\ failed' = failed
                 ELSE /\ pc' = "site"
                      /\ failed' = IF hit = "raise" \/ ~detailsOk THEN failed \cup {"api"} ELSE failed
                      /\ UNCHANGED <<twitter_url, metadata, apiYield>>
    /\ UNCHANGED <<routine, nome, nome_parlamentar, use_google_fallback, latest_tweet_url,
                   social_media, returned, siteYield, sitePass, driver, openSessions, quitCalls, qi,
                   searchResult, searchExit, rejected, sc_url, sc_nome, sc_parl, sc_out, q_last>>
    /\ UNCHANGED toolVars

-----------------------------------------------------------------------------
(* pressionaapp DeputadosDataExtractor.extract_twitter_info, STEP 2 *)

\* href=re.compile(r'(twitter\.com|x\.com)')
HrefIsTwitter(href) == Contains(href, "twitter.com") \/ Contains(href, "x.com")

\* twitter_handle.lstrip('@')
RECURSIVE LStripAt(_)
LStripAt(s) == IF s # "" /\ Ch(s, 1) = "@" THEN LStripAt(SubSeq(s, 2, Len(s))) ELSE s

WidgetUrl(handle) ==
    IF StartsWith(handle, "http") THEN handle ELSE "https://twitter.com/" \o LStripAt(handle)

\* the hrefs an anchor can carry that link to Twitter/X and are not official
PersonalHrefs == {h \in HrefPool : HrefIsTwitter(h) /\ ~_is_official_camara_link(h)}

\* first anchor among those in the given regions that links to Twitter/X and is not official
FirstPersonal(anchors, regions) ==
    LET ok == {i \in 1..Len(anchors) :
                  /\ anchors[i].region \in regions
                  /\ anchors[i].href \in PersonalHrefs}
    IN  IF ok = {} THEN NoneVal
        ELSE anchors[CHOOSE i \in ok : \A j \in ok : i <= j].href

\* regions each anchor scan looks at
InDiv == {"div"}
InMainNotFooter == {"div", "main"}
Anywhere == Regions

\* the four passes over the parsed page, in order; the first that yields a URL decides
SiteScan(pg) ==
    IF pg.hasDiv /\ Truthy(pg.widget)
    THEN [url |-> WidgetUrl(pg.widget), confidence |-> "high", pass |-> "widget"]
    ELSE IF pg.hasDiv /\ FirstPersonal(pg.anchors, InDiv) # NoneVal
    THEN [url |-> FirstPersonal(pg.anchors, InDiv), confidence |-> "medium", pass |-> "div_links"]
    ELSE IF FirstPersonal(pg.anchors, InMainNotFooter) # NoneVal
    THEN [url |-> FirstPersonal(pg.anchors, InMainNotFooter), confidence |-> "medium", pass |-> "main"]
    ELSE IF FirstPersonal(pg.anchors, Anywhere) # NoneVal
    THEN [url |-> FirstPersonal(pg.anchors, Anywhere), confidence |-> "low", pass |-> "fallback"]
    ELSE [url |-> NoneVal, confidence |-> NoneVal, pass |-> NoneVal]

\* the outcome of the passes for every page that can be drawn
PageTable == { [page |-> pg, out |-> SiteScan(pg)] : pg \in Pages }

\* DepSite whose failure ends the routine instead of falling through to STEP 3
DepSite_AbortOnError ==
    /\ routine = "pdep" /\ pc = "site"
    /\ calls' = Append(calls, "site")
    /\ failed' = failed \cup {"site"}
    /\ returned' = "with_metadata"
    /\ pc' = "done"
    /\ UNCHANGED <<routine, nome, nome_parlamentar, use_google_fallback, twitter_url,
                   latest_tweet_url, social_media, metadata, apiYield, siteYield, sitePass,
                   driver, openSessions, quitCalls, qi, searchResult, searchExit, rejected,
                   sc_url, sc_nome, sc_parl, sc_out, q_last>>
    /\ UNCHANGED toolVars

DepSite ==
    /\ routine = "pdep" /\ pc = "site"
    /\ calls' = Append(calls, "site")
    /\ \/ \* session.get, raise_for_status or the parse raises
          /\ failed' = failed \cup {"site"}
          /\ pc' = "web"
          /\ UNCHANGED <<twitter_url, metadata, siteYield, sitePass>>
       \/ \E t \in PageTable :
             LET r == t.out
             IN  /\ failed' = failed
                 /\ IF r.url # NoneVal
                    THEN /\ Found(r.url, "chamber_website", r.confidence)
                         /\ siteYield' = r.url
                         /\ sitePass' = r.pass
                    ELSE /\ pc' = "web"
                         /\ UNCHANGED <<twitter_url, metadata, siteYield, sitePass>>
    /\ UNCHANGED <<routine, nome, nome_parlamentar, use_google_fallback, latest_tweet_url,
                   social_media, returned, apiYield, driver, openSessions, quitCalls, qi,
                   searchResult, searchExit, rejected, sc_url, sc_nome, sc_parl, sc_out, q_last>>
    /\ UNCHANGED toolVars

-----------------------------------------------------------------------------
(* TwitterSearcher._setup_driver *)

\* how _setup_driver can end:
\*   ok            Chrome started, True returned
\*   fail_early    WebDriverException before webdriver.Chrome returned; False returned
\*   fail_started  WebDriverException from execute_script/implicitly_wait after
\*                 self.driver was assigned; False returned
\*   raise         another exception (not a WebDriverException) before Chrome started
SetupOutcomes == {"ok", "fail_early", "fail_started", "raise"}

ChromeStarted(o) == o \in {"ok", "fail_started"}

_setup_driver(o) ==
    /\ driver' = IF ChromeStarted(o) THEN "session" ELSE driver
    /\ openSessions' = IF ChromeStarted(o) THEN openSessions + 1 ELSE openSessions

-----------------------------------------------------------------------------
(* STEP 3 guard and TwitterSearcher.search_twitter_account *)

\* WebGuard with the use_google_fallback test dropped
WebGuard_NoFlag ==
    IF routine = "pdep"
    THEN ~Truthy(twitter_url) /\ Truthy(nome) /\ Truthy(nome_parlamentar)
    ELSE ~Truthy(twitter_url) /\ Truthy(nome_parlamentar)

WebGuard ==
    IF routine = "pdep"
    THEN use_google_fallback /\ ~Truthy(twitter_url) /\ Truthy(nome) /\ Truthy(nome_parlamentar)
    ELSE use_google_fallback /\ ~Truthy(twitter_url) /\ Truthy(nome_parlamentar)

\* the value the routine returns: the URL fields plus the metadata dict
ReturnFull ==
    /\ returned' = "with_metadata"
    /\ pc' = "done"

\* guard false: the routine falls through to its final return
WebSkip ==
    /\ routine \in {"pdep", "psen"} /\ pc = "web"
    /\ ~WebGuard
    /\ ReturnFull
    /\ UNCHANGED <<routine, nome, nome_parlamentar, use_google_fallback, twitter_url,
                   latest_tweet_url, social_media, metadata, calls, failed, apiYield, siteYield, sitePass,
                   driver, openSessions, quitCalls, qi, searchResult, searchExit, rejected,
                   sc_url, sc_nome, sc_parl, sc_out, q_last>>
    /\ UNCHANGED toolVars

\* guard true: TwitterSearcher() is built and search_twitter_account entered (_setup_driver)
SearchStart ==
    /\ routine \in {"pdep", "psen"} /\ pc = "web"
    /\ WebGuard
    /\ calls' = Append(calls, "web")
    /\ \E o \in SetupOutcomes :
          /\ _setup_driver(o)
          /\ IF o = "ok"
             THEN IF nome = NoneVal
                  THEN \* _extract_name_parts(None, ...) raises inside the try block
                       /\ searchExit' = "raised" /\ pc' = "s_cleanup" /\ qi' = qi
                  ELSE /\ searchExit' = searchExit /\ pc' = "s_query" /\ qi' = 1
             ELSE /\ searchExit' = IF o = "raise" THEN "raised" ELSE "setup_failed"
                  /\ pc' = "web_done"
                  /\ qi' = qi
    /\ UNCHANGED <<routine, nome, nome_parlamentar, use_google_fallback, twitter_url,
                   latest_tweet_url, social_media, metadata, returned, failed, apiYield, siteYield, sitePass,
                   quitCalls, searchResult, rejected, sc_url, sc_nome, sc_parl, sc_out, q_last>>
    /\ UNCHANGED toolVars

\* outcome of one _search_google call: result links, or no links (CAPTCHA/blocked
\* page, timeout, error caught inside), or an exception escaping its handlers:
\* "raise" is the timeout whose handler reads self.driver.title from a browser
\* that no longer answers, which raises out of the except clause
QueryKinds == {"links", "captcha", "timeout", "error", "raise"}

\* first link of the list that _should_accept_url accepts (0 if none)
FirstAccepted(links, np) ==
    LET ok == {i \in 1..Len(links) : _should_accept_url(links[i], np).should_accept}
    IN  IF ok = {} THEN 0 ELSE CHOOSE i \in ok : \A j \in ok : i <= j

\* the body of one loop iteration, given the links _search_google returned:
\* the Twitter links extracted, the index of the first accepted one and its score
LinkVerdict(links, np, a) ==
    [ links |-> links,
      a |-> a,
      verdict |-> IF a = 0 THEN NoVerdict ELSE _should_accept_url(links[a], np) ]

LinksEval(links, np) == LinkVerdict(links, np, FirstAccepted(links, np))

QueryEval(n, np_, urls) ==
    LinksEval(_extract_twitter_links_from_urls(urls), _extract_name_parts(n, np_))

SearchNames == {np \in NamePairs : np[1] # NoneVal /\ np[2] # NoneVal}

\* QueryEval for every name pair and result list that can be drawn
QueryTable ==
    { [names |-> np, urls |-> urls, out |-> QueryEval(np[1], np[2], urls)] :
        np \in SearchNames, urls \in SeqsUpTo(ResultPool, MaxResults) }

\* one iteration of the loop over search_queries
SearchQuery ==
    /\ pc = "s_query"
    /\ \E kind \in QueryKinds, t \in QueryTable :
          /\ t.names = <<nome, nome_parlamentar>>
          /\ (kind # "links" => t.urls = <<>>)
          /\ q_last' = IF kind = "raise" THEN "timeout" ELSE kind
          /\ IF kind = "raise"
             THEN /\ searchExit' = "raised"
                  /\ pc' = "s_cleanup"
                  /\ UNCHANGED <<qi, searchResult, rejected>>
             ELSE LET q == t.out
                      links == q.links
                      a == q.a
                      seen == IF a = 0 THEN links ELSE SubSeq(links, 1, a - 1)
                  IN  /\ rejected' = rejected \cup Range(seen)
                      /\ IF a # 0
                         THEN /\ searchResult' =
                                    [ url |-> links[a],
                                      confidence |-> q.verdict.confidence,
                                      needs_review |-> q.verdict.needs_review,
                                      source |-> "google_search" ]
                              /\ searchExit' = "accepted"
                              /\ pc' = "s_cleanup"
                              /\ qi' = qi
                         ELSE /\ searchResult' = searchResult
                              /\ IF qi = NumQueries
                                 THEN /\ searchExit' = "exhausted" /\ pc' = "s_cleanup" /\ qi' = qi
                                 ELSE /\ searchExit' = searchExit /\ pc' = pc /\ qi' = qi + 1
    /\ UNCHANGED <<routine, nome, nome_parlamentar, use_google_fallback, twitter_url,
                   latest_tweet_url, social_media, metadata, returned, calls, failed, apiYield, siteYield,
                   sitePass, driver, openSessions, quitCalls, sc_url, sc_nome, sc_parl, sc_out>>
    /\ UNCHANGED toolVars

(* TwitterSearcher._cleanup_driver, run by the finally clause *)
_cleanup_driver ==
    IF driver # NoneVal
    THEN /\ quitCalls' = quitCalls + 1
         /\ openSessions' = openSessions - 1
         /\ driver' = NoneVal
    ELSE UNCHANGED <<quitCalls, openSessions, driver>>

SearchCleanup ==
    /\ pc = "s_cleanup"
    /\ _cleanup_driver
    /\ pc' = "web_done"
    /\ UNCHANGED <<routine, nome, nome_parlamentar, use_google_fallback, twitter_url,
                   latest_tweet_url, social_media, metadata, returned, calls, failed, apiYield, siteYield,
                   sitePass, qi, searchResult, searchExit, rejected,
                   sc_url, sc_nome, sc_parl, sc_out, q_last>>
    /\ UNCHANGED toolVars

\* the routine takes the value (or exception) of search_twitter_account
WebDone ==
    /\ routine \in {"pdep", "psen"} /\ pc = "web_done"
    /\ IF searchExit = "raised"
       THEN /\ failed' = failed \cup {"web"}
            /\ ReturnFull
            /\ UNCHANGED <<twitter_url, metadata>>
       ELSE IF searchResult.url # NoneVal
       THEN /\ twitter_url' = searchResult.url
            /\ metadata' = [ source |-> "google_search",
                             confidence |-> searchResult.confidence,
                             needs_review |-> searchResult.needs_review ]
            /\ pc' = "tweet"
            /\ UNCHANGED <<failed, returned>>
       ELSE /\ ReturnFull
            /\ UNCHANGED <<failed, twitter_url, metadata>>
    /\ UNCHANGED <<routine, nome, nome_parlamentar, use_google_fallback, latest_tweet_url,
                   social_media, calls, apiYield, siteYield, sitePass, driver, openSessions, quitCalls, qi,
                   searchResult, searchExit, rejected, sc_url, sc_nome, sc_parl, sc_out, q_last>>
    /\ UNCHANGED toolVars

-----------------------------------------------------------------------------
(* TwitterSearcher.extract_latest_tweet_url, called once a URL is found; the *)
(* routine returns right after it, whether it returned or raised            *)

\* what happens after the driver is set up: a status link is found, none is
\* found, or the page load raises (caught inside, None returned)
TweetKinds == {"found", "none", "error"}

ExtractLatestTweet ==
    /\ routine \in {"pdep", "psen"} /\ pc = "tweet"
    /\ \E o \in SetupOutcomes, kind \in TweetKinds :
          /\ _setup_driver(o)
          /\ latest_tweet_url' = IF o = "ok" /\ kind = "found" THEN TweetUrl ELSE latest_tweet_url
          /\ failed' = IF o = "raise" THEN failed \cup {"tweet"} ELSE failed
    /\ ReturnFull
    /\ UNCHANGED <<routine, nome, nome_parlamentar, use_google_fallback, twitter_url,
                   social_media, metadata, calls, apiYield, siteYield, sitePass, quitCalls, qi,
                   searchResult, searchExit, rejected, sc_url, sc_nome, sc_parl, sc_out, q_last>>
    /\ UNCHANGED toolVars

-----------------------------------------------------------------------------
(* pressionaapp SenadoresDataExtractor.extract_twitter_info, STEP 1 *)

SenApi ==
    /\ routine = "psen" /\ pc = "api"
    /\ calls' = Append(calls, "api")
    /\ \/ \* get_senator_details returned None, or an exception reached the except clause
          /\ failed' = failed \cup {"api"}
          /\ pc' = "web"
          /\ UNCHANGED <<twitter_url, metadata, apiYield>>
       \/ \E pagina \in PaginaPool :
             /\ failed' = failed
             /\ IF Truthy(pagina) /\ IsTwitterLink(Lower(pagina))
                THEN /\ twitter_url' = pagina
                     /\ metadata' = [source |-> "official_api", confidence |-> "high",
                                     needs_review |-> FALSE]
                     /\ apiYield' = pagina
                     /\ pc' = "tweet"
                ELSE /\ pc' = "web"
                     /\ UNCHANGED <<twitter_url, metadata, apiYield>>
    /\ UNCHANGED <<routine, nome, nome_parlamentar, use_google_fallback, latest_tweet_url,
                   social_media, returned, siteYield, sitePass, driver, openSessions, quitCalls, qi,
                   searchResult, searchExit, rejected, sc_url, sc_nome, sc_parl, sc_out, q_last>>
    /\ UNCHANGED toolVars

-----------------------------------------------------------------------------
(* blindagemapp GoogleSocialMediaSearcher.search_deputy_social_media: the dict *)
(* it returns holds, per platform, only a URL that _should_accept_url accepted, *)
(* with the scorer's confidence and needs_review                                *)

GooglePlatforms == {"twitter", "instagram"}

GoogleUrl(p) == IF p = "twitter" THEN "https://x.com/mariasouza"
                ELSE "https://www.instagram.com/mariasouza"

Accepted(p, tier) ==
    [ url |-> GoogleUrl(p), confidence |-> tier, needs_review |-> TierOf(
          IF tier = "high" THEN HighThreshold ELSE MediumThreshold).needs_review,
      source |-> "google_search" ]

\* possible return values: platform -> accepted entry, NoneVal where the platform is absent
GoogleResults ==
    { g \in [GooglePlatforms -> {NoneVal, "high", "medium"}] : TRUE }

Keys(g) == {p \in GooglePlatforms : g[p] # NoneVal}

\* dict.get(key, default) on a result entry
GetOr(rec, key, default) == IF key \in DOMAIN rec THEN rec[key] ELSE default

-----------------------------------------------------------------------------
(* blindagemapp DeputadosDataExtractor.extract_social_media_links *)

\* social_media dicts the page passes can leave behind
SitePlatforms == {"twitter", "instagram"}

SiteUrl(p) == IF p = "twitter" THEN "https://twitter.com/mariasouza"
              ELSE "https://www.instagram.com/mariasouza"

AnyFound(sm) == \E p \in Platforms : Truthy(sm[p])

\* lowest tier among the Google results
OverallConfidence(tiers) ==
    IF "low" \in tiers THEN "low" ELSE IF "medium" \in tiers THEN "medium" ELSE "high"

BDepSite ==
    /\ routine = "bdep" /\ pc = "site"
    /\ calls' = Append(calls, "site")
    /\ \/ \* session.get, raise_for_status or the parse raises: outer except clause
          /\ failed' = failed \cup {"site"}
          /\ returned' = "social_media_only"
          /\ pc' = "done"
          /\ UNCHANGED <<social_media, metadata>>
       \/ \E found \in SUBSET SitePlatforms :
             LET sm == [p \in Platforms |-> IF p \in found THEN SiteUrl(p) ELSE NoneVal]
             IN  /\ failed' = failed
                 /\ social_media' = sm
                 /\ metadata' = IF found # {}
                                THEN [source |-> "chamber_website", confidence |-> "high",
                                      needs_review |-> FALSE]
                                ELSE metadata
                 /\ IF use_google_fallback /\ ~AnyFound(sm) /\ Truthy(nome)
                       /\ Truthy(nome_parlamentar)
                    THEN pc' = "bweb" /\ returned' = returned
                    ELSE ReturnFull
    /\ UNCHANGED <<routine, nome, nome_parlamentar, use_google_fallback, twitter_url,
                   latest_tweet_url, apiYield, siteYield, sitePass, driver, openSessions,
                   quitCalls, qi, searchResult, searchExit, rejected,
                   sc_url, sc_nome, sc_parl, sc_out, q_last>>
    /\ UNCHANGED toolVars

BDepWeb ==
    /\ routine = "bdep" /\ pc = "bweb"
    /\ calls' = Append(calls, "web")
    /\ \/ \* search_deputy_social_media raises: inner except clause
          /\ failed' = failed \cup {"web"}
          /\ UNCHANGED <<social_media, metadata, w_tiers>>
       \/ \E g \in GoogleResults :
             LET res == [p \in Keys(g) |-> Accepted(p, g[p])]
             IN  /\ failed' = failed
                 /\ w_tiers' = {g[p] : p \in Keys(g)}
                 /\ social_media' = [p \in Platforms |->
                                        IF p \in Keys(g) /\ ~Truthy(social_media[p])
                                        THEN res[p].url ELSE social_media[p]]
                 /\ metadata' = IF Keys(g) # {}
                                THEN [ source |-> "google_search",
                                       confidence |-> OverallConfidence(
                                                          {res[p].confidence : p \in Keys(g)}),
                                       needs_review |-> \E p \in Keys(g) : res[p].needs_review ]
                                ELSE metadata
    /\ ReturnFull
    /\ UNCHANGED <<routine, nome, nome_parlamentar, use_google_fallback, twitter_url,
                   latest_tweet_url, apiYield, siteYield, sitePass, driver, openSessions,
                   quitCalls, qi, searchResult, searchExit, rejected,
                   sc_url, sc_nome, sc_parl, sc_out, q_last>>
    /\ UNCHANGED <<sc_details, sc_out2, sc_details2, grokVars, normVars, cleanVars,
                   batchVars, rankVars>>

-----------------------------------------------------------------------------
(* blindagemapp SenadoresDataExtractor.extract_social_media_links *)

SenatorInitialInfo == [source |-> "chamber_website", confidence |-> NoneVal,
                       needs_review |-> FALSE]

ConfScore(tier) == IF tier = "high" THEN 3 ELSE IF tier = "medium" THEN 2 ELSE 1

\* tier from the average of the per-platform scores: >= 2.5 high, >= 1.5 medium
AverageConfidence(total, n) ==
    IF 2 * total >= 5 * n THEN "high" ELSE IF 2 * total >= 3 * n THEN "medium" ELSE "low"

RECURSIVE Sum(_, _)
Sum(f, S) == IF S = {} THEN 0
             ELSE LET x == CHOOSE x \in S : TRUE IN f[x] + Sum(f, S \ {x})

BSenRun ==
    /\ routine = "bsen" /\ pc = "bweb"
    /\ IF use_google_fallback /\ Truthy(nome_parlamentar)
       THEN /\ calls' = Append(calls, "web")
            /\ \/ \* search_deputy_social_media raises: except clause
                  /\ failed' = failed \cup {"web"}
                  /\ UNCHANGED <<social_media, metadata, w_tiers>>
               \/ \E g \in GoogleResults :
                     LET res == [p \in Keys(g) |-> Accepted(p, g[p])]
                         conf_info == [p \in Keys(g) |-> GetOr(res[p], "confidence_info", <<>>)]
                         platform_confidence ==
                             [p \in Keys(g) |-> GetOr(conf_info[p], "confidence", "low")]
                         platform_needs_review ==
                             [p \in Keys(g) |-> GetOr(conf_info[p], "needs_review", TRUE)]
                         total == Sum([p \in Keys(g) |-> ConfScore(platform_confidence[p])],
                                      Keys(g))
                         overall == AverageConfidence(total, Cardinality(Keys(g)))
                     IN  /\ failed' = failed
                         /\ w_tiers' = {g[p] : p \in Keys(g)}
                         /\ social_media' = [p \in Platforms |->
                                                IF p \in Keys(g) THEN res[p].url
                                                ELSE social_media[p]]
                         /\ metadata' = IF Keys(g) # {}
                                        THEN [ source |-> "google_search",
                                               confidence |-> overall,
                                               needs_review |->
                                                   (\E p \in Keys(g) : platform_needs_review[p])
                                                   \/ overall # "high" ]
                                        ELSE metadata
       ELSE UNCHANGED <<calls, failed, social_media, metadata, w_tiers>>
    /\ ReturnFull
    /\ UNCHANGED <<routine, nome, nome_parlamentar, use_google_fallback, twitter_url,
                   latest_tweet_url, apiYield, siteYield, sitePass, driver, openSessions,
                   quitCalls, qi, searchResult, searchExit, rejected,
                   sc_url, sc_nome, sc_parl, sc_out, q_last>>
    /\ UNCHANGED <<sc_details, sc_out2, sc_details2, grokVars, normVars, cleanVars,
                   batchVars, rankVars>>

-----------------------------------------------------------------------------
(* A direct evaluation of TwitterSearcher._should_accept_url *)

ScorerUrls ==
    ResultPool \cup
    { "https://x.com/mariasouza",
      "https://x.com/camara_deputado_oficial_brasil2024",
      "https://twitter.com/MariaSilva",
      "https://x.com/dep_maria_br",
      "https://x.com/jose",
      "https://x.com/joselima_oficial",
      "https://x.com/deputadocamarabrasil",
      "https://www.instagram.com/mariasouza",
      "https://www.netflix.com/mariasouza",
      "https://mobile.twitter.com/mariasouza",
      "https://x.com/" }

ScorerNames == {np \in NamePairs : np[1] # NoneVal} \cup
               { <<"Maria Souza", "">>, <<"Souza", "Maria Souza">>, <<"Ana", "Ana">>,
                 <<"José José", "Zé">> }

ScoreCandidate ==
    /\ routine = "score" /\ pc = "score"
    /\ sc_out' = _should_accept_url(sc_url, _extract_name_parts(sc_nome, sc_parl))
    /\ \E order \in Orderings(_extract_name_parts(sc_nome, sc_parl).all_significant) :
          sc_details' = UrlDetails(sc_url, _extract_name_parts(sc_nome, sc_parl), order)
    /\ pc' = "scored"
    /\ UNCHANGED <<routine, pipelineVars, sc_url, sc_nome, sc_parl, sc_out2, sc_details2,
                   grokVars, normVars, cleanVars, extraVars>>

\* a second evaluation on the same arguments (a later call, possibly in another
\* interpreter process, where the set may enumerate its elements differently)
ScoreAgain ==
    /\ routine = "score" /\ pc = "scored"
    /\ sc_out2' = _should_accept_url(sc_url, _extract_name_parts(sc_nome, sc_parl))
    /\ \E order \in Orderings(_extract_name_parts(sc_nome, sc_parl).all_significant) :
          sc_details2' = UrlDetails(sc_url, _extract_name_parts(sc_nome, sc_parl), order)
    /\ pc' = "done"
    /\ UNCHANGED <<routine, pipelineVars, sc_url, sc_nome, sc_parl, sc_out, sc_details,
                   grokVars, normVars, cleanVars, extraVars>>

-----------------------------------------------------------------------------
(* GrokTwitterService._make_request *)

max_retries == 3
retry_delay == 1

\* status codes the API can answer with
StatusPool == {200, 401, 403, 404, 429, 500, 503}

\* what one self.session.request call yields: a response with a status and a
\* body that is JSON or not, or a requests.RequestException
Responses ==
    { [kind |-> "response", status |-> st, body |-> "json"] : st \in StatusPool }
    \cup { [kind |-> "response", status |-> 200, body |-> "not_json"] }
    \cup { [kind |-> "exception", status |-> 0, body |-> "none"] }

\* what response.json() raises on a body that is not JSON: a subclass of
\* requests.RequestException (requests 2.27 and later) or a plain ValueError
JsonErrors == {"RequestException", "ValueError"}

\* the three retry branches: sleep and continue unless this was the last attempt
RetryOrRaise(attempt) == IF attempt < max_retries - 1 THEN "retry" ELSE "GrokAPIError"

\* RequestOutcome that retries a 401 like a rate limit
RequestOutcome_Retry401(r, attempt, jsonError) ==
    IF r.kind = "exception" THEN RetryOrRaise(attempt)
    ELSE IF r.status = 200
    THEN IF r.body = "json" THEN "return"
         ELSE IF jsonError = "RequestException" THEN RetryOrRaise(attempt)
         ELSE "ValueError"
    ELSE IF r.status = 403 THEN "GrokAPIError"
    ELSE IF r.status \in {401, 429} THEN RetryOrRaise(attempt)
    ELSE IF r.status >= 500 THEN RetryOrRaise(attempt)
    ELSE "GrokAPIError"

\* one iteration of the loop body for the response r of attempt number attempt
\* (0-based): "return", "retry", or the exception that leaves the function
RequestOutcome(r, attempt, jsonError) ==
    IF r.kind = "exception" THEN RetryOrRaise(attempt)
    ELSE IF r.status = 200
    THEN IF r.body = "json" THEN "return"
         ELSE IF jsonError = "RequestException" THEN RetryOrRaise(attempt)
         ELSE "ValueError"
    ELSE IF r.status \in {401, 403} THEN "GrokAPIError"
    ELSE IF r.status = 429 THEN RetryOrRaise(attempt)
    ELSE IF r.status >= 500 THEN RetryOrRaise(attempt)
    ELSE "GrokAPIError"

\* one pass through the for loop: the request, the dispatch on its outcome and,
\* on a retry, the sleep
\* BackoffDelay that waits retry_delay before every retry
BackoffDelay_Constant(attempt) == retry_delay

\* the argument of time.sleep before the retry that follows attempt (0-based)
BackoffDelay(attempt) == retry_delay * (attempt + 1)

GrokRequest ==
    /\ routine = "grok" /\ pc = "g_request"
    /\ Len(g_log) < max_retries
    /\ \E r \in Responses, jsonError \in JsonErrors :
          /\ g_log' = Append(g_log, r)
          /\ IF RequestOutcome(r, Len(g_log), jsonError) = "retry"
             THEN /\ g_sleeps' = Append(g_sleeps, BackoffDelay(Len(g_log)))
                  /\ g_exit' = g_exit
                  /\ pc' = pc
             ELSE /\ g_sleeps' = g_sleeps
                  /\ g_exit' = RequestOutcome(r, Len(g_log), jsonError)
                  /\ pc' = "done"
    /\ UNCHANGED <<routine, pipelineVars, scorerVars, normVars, cleanVars, extraVars>>

-----------------------------------------------------------------------------
(* A direct evaluation of TwitterSearcher._normalize_name, and of it again on *)
(* its own output                                                             *)

NormNames ==
    { "Dr. José Lima",
      "Profª Dra. Ana Paula",
      "  Deputado Sr. João  ",
      "Maria da Silva Souza",
      "DR. DR. Érica Conceição",
      "Dra-Sr. Lúcia",
      "Pedro Prof",
      "Drama de Sá",
      "Sr" }

\* full_parts / parl_parts of _extract_name_parts for an already normalized name
SignificantTokens(normalized) == SelectLong(Split(normalized))

NormalizeName ==
    /\ routine = "norm" /\ pc = "norm"
    /\ n_out' = _normalize_name(n_in)
    /\ n_twice' = _normalize_name(_normalize_name(n_in))
    /\ pc' = "done"
    /\ UNCHANGED <<routine, pipelineVars, scorerVars, grokVars, n_in, cleanVars, extraVars>>

-----------------------------------------------------------------------------
(* A direct evaluation of TwitterSearcher._clean_twitter_url on a candidate   *)
(* profile URL                                                                *)

CleanUrls ==
    { "https://x.com/alice",
      "https://x.com/alice/",
      "https://x.com/alice/status/123",
      "https://twitter.com/alice/photo/1",
      "https://x.com/alice/with/123",
      "https://x.com/alice/status/123?s=20#top",
      "https://x.com/alice?lang=pt",
      "https://x.com/alice/media",
      "https://x.com/alice/likes",
      "https://twitter.com/alice/with_replies",
      "https://x.com/alice/photo" }

\* the profile URL named by the comments of the routine: scheme://host/username
BareProfile(url) == FirstFourParts(BeforeChar(BeforeChar(url, "?"), "#"))

CleanUrl ==
    /\ routine = "clean" /\ pc = "clean"
    /\ c_out' = _clean_twitter_url(c_url)
    /\ pc' = "done"
    /\ UNCHANGED <<routine, pipelineVars, scorerVars, grokVars, normVars, c_url, extraVars>>

-----------------------------------------------------------------------------
(* GrokTwitterService.find_twitter_profile: the choice among the results of   *)
(* the service's response                                                     *)

MaxProfiles == 2

\* confidence_score values, in hundredths
ConfidenceScores == {50, 85, 90}

ProfilePool ==
    [ platform : {"twitter", "instagram"}, verified : BOOLEAN,
      confidence_score : ConfidenceScores ]

NoProfile == [platform |-> NoneVal, verified |-> FALSE, confidence_score |-> 0]

\* [r for r in results if r.get("platform") == "twitter"]
TwitterProfiles(results) == SelectSeq(results, LAMBDA r : r.platform = "twitter")

\* head of the list after list.sort(key=confidence_score, reverse=True): the sort
\* is stable, so among equal scores the earlier result stays first
BestMatch(profiles) ==
    LET top == {i \in 1..Len(profiles) :
                  \A j \in 1..Len(profiles) :
                      profiles[j].confidence_score <= profiles[i].confidence_score}
    IN  profiles[CHOOSE i \in top : \A j \in top : i <= j]

RankProfiles ==
    /\ routine = "rank" /\ pc = "rank"
    /\ r_out' = IF TwitterProfiles(r_results) = <<>> THEN NoProfile
                ELSE BestMatch(TwitterProfiles(r_results))
    /\ pc' = "done"
    /\ UNCHANGED <<routine, pipelineVars, scorerVars, grokVars, normVars, cleanVars,
                   batchVars, r_results, w_tiers>>

-----------------------------------------------------------------------------
(* The batch routines: DeputadosDataExtractor.extract_deputies and            *)
(* SenadoresDataExtractor.extract_all_senators with save_senator_data         *)

MaxBatch == 2

Ids == {1, 2}

\* a table row; exists = FALSE stands for "no row with this api_id"
NoRow ==
    [ exists |-> FALSE, is_active |-> FALSE, twitter_url |-> NoneVal,
      source |-> NoneVal, confidence |-> NoneVal, needs_review |-> FALSE ]

\* the row written from a resolution result
RowOf(res) ==
    [ exists |-> TRUE, is_active |-> TRUE, twitter_url |-> res.twitter_url,
      source |-> res.source, confidence |-> res.confidence,
      needs_review |-> res.needs_review ]

\* what extract_twitter_info hands back: the URL and the metadata dict
ResolutionPool ==
    { [ twitter_url |-> NoneVal, source |-> NoneVal, confidence |-> NoneVal,
        needs_review |-> FALSE ],
      [ twitter_url |-> "https://x.com/joselima", source |-> "official_api",
        confidence |-> "high", needs_review |-> FALSE ],
      [ twitter_url |-> "https://x.com/mariasouza", source |-> "google_search",
        confidence |-> "medium", needs_review |-> TRUE ] }

\* no resolution was run for this legislator
NotResolved ==
    [ twitter_url |-> NoneVal, source |-> "<not run>", confidence |-> NoneVal,
      needs_review |-> FALSE ]

\* rows a table can hold before the call
StoredRows ==
    { NoRow,
      [ exists |-> TRUE, is_active |-> TRUE, twitter_url |-> "https://x.com/old_account",
        source |-> "official_api", confidence |-> "high", needs_review |-> FALSE ],
      [ exists |-> TRUE, is_active |-> FALSE, twitter_url |-> NoneVal,
        source |-> NoneVal, confidence |-> NoneVal, needs_review |-> FALSE ] }

\* lists the legislature API can return: ids are unique, an entry may lack its id
BatchLists ==
    { l \in SeqsUpTo(Ids \cup {0}, MaxBatch) :
        \A i, j \in 1..Len(l) : (i # j /\ l[i] # 0) => l[i] # l[j] }

\* Model.objects.all().update(is_active=False)
MarkAllInactive(db) ==
    [ i \in Ids |-> IF db[i].exists THEN [db[i] EXCEPT !.is_active = FALSE] ELSE db[i] ]

\* the basic fields of a row are rewritten, the Twitter fields are left alone
Reactivated(row) == [row EXCEPT !.exists = TRUE, !.is_active = TRUE]

\* SaveDeputy that rewrites the Twitter fields of an existing row only when a
\* URL was found
SaveDeputy_SkipEmpty(row, res, update_existing) ==
    IF ~row.exists THEN RowOf(res)
    ELSE IF update_existing /\ res.twitter_url # NoneVal THEN RowOf(res)
    ELSE Reactivated(row)

\* get_or_create / the update branch / the mark-active branch of extract_deputies
SaveDeputy(row, res, update_existing) ==
    IF ~row.exists THEN RowOf(res)
    ELSE IF update_existing THEN RowOf(res)
    ELSE Reactivated(row)

\* created_count / updated_count after one deputy
CountDeputy(counts, row, update_existing) ==
    IF ~row.exists THEN <<counts[1] + 1, counts[2]>>
    ELSE IF update_existing THEN <<counts[1], counts[2] + 1>>
    ELSE counts

\* save_senator_data: update_or_create with senator_defaults
SaveSenator(row, sm) ==
    IF sm = NotResolved THEN Reactivated(row) ELSE RowOf(sm)

CountSenator(counts, row) ==
    IF ~row.exists THEN <<counts[1] + 1, counts[2]>> ELSE <<counts[1], counts[2] + 1>>

\* the loop position after entry b_i, and the return after the last entry
BatchAdvance(counts) ==
    /\ b_i' = b_i + 1
    /\ b_counts' = counts
    /\ IF b_i = Len(b_list)
       THEN pc' = "done" /\ b_ret' = counts
       ELSE pc' = pc /\ b_ret' = b_ret

\* extract_deputies up to the loop: fetch the list, return (0, 0) when it is
\* empty, otherwise mark every deputy inactive
DeputiesStart ==
    /\ routine = "xdep" /\ pc = "b_fetch"
    /\ \E l \in BatchLists :
          /\ b_list' = l
          /\ IF l = <<>>
             THEN /\ b_ret' = <<0, 0>> /\ pc' = "done" /\ b_db' = b_db /\ b_i' = b_i
             ELSE /\ b_ret' = b_ret /\ pc' = "b_loop" /\ b_db' = MarkAllInactive(b_db)
                  /\ b_i' = 1
    /\ UNCHANGED <<routine, pipelineVars, scorerVars, grokVars, normVars, cleanVars, rankVars, w_tiers,
                   b_update, b_extract, b_db0, b_latest, b_counts>>

\* one iteration of the loop over deputies_data
DeputiesStep ==
    /\ routine = "xdep" /\ pc = "b_loop"
    /\ LET api_id == b_list[b_i]
       IN  IF api_id = 0
           THEN \* if not api_id: continue
                /\ BatchAdvance(b_counts)
                /\ UNCHANGED <<b_db, b_latest>>
           ELSE IF ~b_extract
           THEN \* the defaults of get_or_create read extraction_result, which was
                \* never assigned: UnboundLocalError, caught by the except clause
                /\ BatchAdvance(b_counts)
                /\ UNCHANGED <<b_db, b_latest>>
           ELSE \E res \in ResolutionPool :
                   /\ b_latest' = [b_latest EXCEPT ![api_id] = res]
                   /\ b_db' = [b_db EXCEPT ![api_id] = SaveDeputy(b_db[api_id], res, b_update)]
                   /\ BatchAdvance(CountDeputy(b_counts, b_db[api_id], b_update))
    /\ UNCHANGED <<routine, pipelineVars, scorerVars, grokVars, normVars, cleanVars, rankVars, w_tiers,
                   b_update, b_extract, b_list, b_db0>>

\* extract_all_senators up to the loop: mark every senator inactive, then fetch
\* the list and return (0, 0) when it is empty
SenatorsStart ==
    /\ routine = "xsen" /\ pc = "b_fetch"
    /\ b_db' = MarkAllInactive(b_db)
    /\ \E l \in BatchLists :
          /\ b_list' = l
          /\ IF l = <<>>
             THEN b_ret' = <<0, 0>> /\ pc' = "done" /\ b_i' = b_i
             ELSE b_ret' = b_ret /\ pc' = "b_loop" /\ b_i' = 1
    /\ UNCHANGED <<routine, pipelineVars, scorerVars, grokVars, normVars, cleanVars, rankVars, w_tiers,
                   b_update, b_extract, b_db0, b_latest, b_counts>>

\* one iteration of the loop over senators_list
SenatorsStep ==
    /\ routine = "xsen" /\ pc = "b_loop"
    /\ LET codigo == b_list[b_i]
       IN  \E res \in (IF b_extract THEN ResolutionPool ELSE {NotResolved}) :
              IF codigo = 0
              THEN \* save_senator_data returns 'error': no id
                   /\ BatchAdvance(b_counts)
                   /\ UNCHANGED <<b_db, b_latest>>
              ELSE /\ b_latest' = [b_latest EXCEPT ![codigo] = res]
                   /\ b_db' = [b_db EXCEPT ![codigo] = SaveSenator(b_db[codigo], res)]
                   /\ BatchAdvance(CountSenator(b_counts, b_db[codigo]))
    /\ UNCHANGED <<routine, pipelineVars, scorerVars, grokVars, normVars, cleanVars, rankVars, w_tiers,
                   b_update, b_extract, b_list, b_db0>>

-----------------------------------------------------------------------------
(* Specification *)

StartOf(r) == IF r \in {"pdep", "psen"} THEN "api"
              ELSE IF r = "bdep" THEN "site"
              ELSE IF r = "bsen" THEN "bweb"
              ELSE IF r = "grok" THEN "g_request"
              ELSE IF r \in {"xdep", "xsen"} THEN "b_fetch"
              ELSE r

Init ==
    /\ routine \in Routines
    /\ pc = StartOf(routine)
    /\ Idle
    /\ metadata = IF routine = "bsen" THEN SenatorInitialInfo ELSE DefaultMetadata
    /\ IF routine \in {"pdep", "psen", "bdep", "bsen"}
       THEN /\ \E np \in NamePairs : nome = np[1] /\ nome_parlamentar = np[2]
            /\ use_google_fallback \in BOOLEAN
       ELSE nome = NoneVal /\ nome_parlamentar = NoneVal /\ use_google_fallback = FALSE
    /\ IF routine = "score"
       THEN /\ sc_url \in ScorerUrls
            /\ \E np \in ScorerNames : sc_nome = np[1] /\ sc_parl = np[2]
       ELSE sc_url = NoneVal /\ sc_nome = NoneVal /\ sc_parl = NoneVal
    /\ sc_details = <<>> /\ sc_out2 = NoVerdict /\ sc_details2 = <<>>
    /\ g_log = <<>> /\ g_sleeps = <<>> /\ g_exit = NoneVal
    /\ IF routine = "norm" THEN n_in \in NormNames ELSE n_in = NoneVal
    /\ n_out = NoneVal /\ n_twice = NoneVal
    /\ IF routine = "clean" THEN c_url \in CleanUrls ELSE c_url = NoneVal
    /\ c_out = NoneVal
    /\ q_last = NoneVal
    /\ IF routine \in {"xdep", "xsen"}
       THEN /\ b_extract \in BOOLEAN
            /\ b_update \in (IF routine = "xdep" THEN BOOLEAN ELSE {TRUE})
            /\ b_db \in [Ids -> StoredRows]
       ELSE b_extract = FALSE /\ b_update = FALSE /\ b_db = [i \in Ids |-> NoRow]
    /\ b_db0 = b_db
    /\ b_list = <<>> /\ b_i = 0
    /\ b_latest = [i \in Ids |-> NotResolved]
    /\ b_counts = <<0, 0>>
    /\ b_ret = <<>>
    /\ IF routine = "rank"
       THEN r_results \in SeqsUpTo(ProfilePool, MaxProfiles)
       ELSE r_results = <<>>
    /\ r_out = NoProfile
    /\ w_tiers = {}

Next ==
    \/ DepApi
    \/ DepSite
    \/ SenApi
    \/ WebSkip
    \/ SearchStart
    \/ SearchQuery
    \/ SearchCleanup
    \/ WebDone
    \/ ExtractLatestTweet
    \/ BDepSite
    \/ BDepWeb
    \/ BSenRun
    \/ ScoreCandidate
    \/ ScoreAgain
    \/ GrokRequest
    \/ NormalizeName
    \/ CleanUrl
    \/ DeputiesStart
    \/ DeputiesStep
    \/ SenatorsStart
    \/ SenatorsStep
    \/ RankProfiles

Spec == Init /\ [][Next]_vars

-----------------------------------------------------------------------------
(* Properties *)

Called(a) == a \in Range(calls)

Finished == pc = "done"

NamesGiven == Truthy(nome) /\ Truthy(nome_parlamentar)

\* C1: in extract_twitter_info (deputies and senators) the web search and the AI
\* assistant are called only when neither the structured API nor the
\* institutional site yielded a URL and use_google_fallback is true; once the
\* API yields a Twitter/X URL, no site, web-search or AI call is made.
C1_FallbackOnlyAsLastResort ==
    routine \in {"pdep", "psen"} =>
        /\ (Called("web") \/ Called("ai")) =>
               (apiYield = NoneVal /\ siteYield = NoneVal /\ use_google_fallback)
        /\ apiYield # NoneVal => ~Called("site") /\ ~Called("web") /\ ~Called("ai")

C1_Witness ==
    routine = "pdep" /\ Finished /\ Called("web") /\ calls = <<"api", "site", "web">>

\* C2: a result of extract_twitter_info with a URL carries a source and a
\* confidence tier.
C2_UrlHasSourceAndConfidence ==
    (routine \in {"pdep", "psen"} /\ Finished /\ twitter_url # NoneVal) =>
        (metadata.source # NoneVal /\ metadata.confidence # NoneVal)

C2_Witness ==
    routine = "pdep" /\ Finished /\ twitter_url # NoneVal /\ metadata.source = "chamber_website"

\* C3: a result without any URL carries source None and needs_review False, in
\* the pressionaapp deputy routine and in the blindagemapp senator routine.
C3_NullUrlHasNoSource ==
    (routine \in {"pdep", "bsen"} /\ Finished /\ twitter_url = NoneVal /\ ~AnyFound(social_media)) =>
        (metadata.source = NoneVal /\ metadata.needs_review = FALSE)

C5_NeverInstitutional ==
    (routine = "pdep" /\ Finished /\ twitter_url # NoneVal) =>
        ~_is_official_camara_link(twitter_url)

\* C6: when the API, the site and the web search yield no accepted candidate,
\* the AI assistant is called before the resolution ends unresolved.
C6_AIAssistantBeforeUnresolved ==
    (routine = "pdep" /\ Finished /\ twitter_url = NoneVal /\ Called("web")) =>
        Called("ai")

ScoredScenario2 ==
    /\ routine = "score" /\ Finished
    /\ sc_nome = "Maria da Silva Souza" /\ sc_parl = "Maria Souza"
    /\ sc_url = "https://x.com/mariasouza_fake9921"

\* C7 as stated: for civil name 'Maria da Silva Souza' and parliamentary name
\* 'Maria Souza', https://x.com/mariasouza_fake9921 is assessed low and rejected.
C7_Scenario2Rejected ==
    ScoredScenario2 => (sc_out.confidence = "low" /\ ~sc_out.should_accept)

\* C7 amended: for that identity the candidate matches the tokens maria and
\* souza, scores 9 (15 from the names, minus 3 for the digit run, minus 3 for
\* 'fake'), is assessed high without review and is accepted.
C7_Scenario2Accepted ==
    ScoredScenario2 =>
        /\ sc_out.username = "mariasouza_fake9921"
        /\ sc_out.score = 9
        /\ sc_out.confidence = "high"
        /\ sc_out.needs_review = FALSE
        /\ sc_out.should_accept

C7_Witness == ScoredScenario2 /\ sc_out.should_accept

\* C8: in the pressionaapp deputy routine a failing source never aborts the
\* chain: after a failed API step the site step runs, after a failed site step
\* the web search runs (fallback enabled, names given), and the routine always
\* returns its result dict.
C8_FailureNeverAborts ==
    routine = "pdep" =>
        /\ ("api" \in failed /\ pc # "site") => Called("site")
        /\ ("site" \in failed /\ use_google_fallback /\ NamesGiven /\ pc # "web") => Called("web")
        /\ Finished => returned = "with_metadata"

C8_Witness ==
    /\ routine = "pdep" /\ Finished
    /\ failed = {"api", "site", "web"}

\* C9: in the blindagemapp deputy routine a failed site fetch or parse does not
\* abort the chain: with fallback enabled and names given the web search is
\* still called and the result has the social_media-plus-metadata shape.
C9_SiteFailureFallsThrough ==
    (routine = "bdep" /\ Finished /\ "site" \in failed /\ use_google_fallback /\ NamesGiven) =>
        (Called("web") /\ returned = "with_metadata")

\* C10: when search_twitter_account has returned or raised, self.driver is None
\* and every Chrome session it started has been quit.
C10_SearchReleasesDriver ==
    pc = "web_done" => (driver = NoneVal /\ openSessions = 0)

\* C11: when extract_twitter_info has returned, no Chrome session started during
\* the attempt (by search_twitter_account or extract_latest_tweet_url) is still
\* open.
C11_NoSessionLeftOpen ==
    (routine \in {"pdep", "psen"} /\ Finished) => (openSessions = 0 /\ driver = NoneVal)

Is200(r) == r.kind = "response" /\ r.status = 200

IsFatalStatus(r) == r.kind = "response" /\ r.status \in {401, 403}

\* statuses the loop neither returns on nor retries
IsNonRetryable(r) == r.kind = "response" /\ r.status \notin {200, 429} /\ r.status < 500

\* C12: a 401 or 403 response ends _make_request at once with GrokAPIError: it is
\* the last response received, whatever its attempt number, and no sleep is
\* made for it (the only sleeps are those of the earlier retried attempts).
C12_AuthErrorsAreFatal ==
    routine = "grok" =>
        \A k \in 1..Len(g_log) :
            IsFatalStatus(g_log[k]) =>
                /\ k = Len(g_log)
                /\ Finished /\ g_exit = "GrokAPIError"
                /\ Len(g_sleeps) = k - 1

C12_Witness ==
    /\ routine = "grok" /\ Finished
    /\ Len(g_log) = 2 /\ g_log[1].status = 429 /\ g_log[2].status = 403
    /\ g_sleeps = <<1>>

\* C13: _make_request issues at most max_retries requests, returns on the first
\* 200 response, raises GrokAPIError when no 200 arrives, and issues no request
\* after a 200 or after a non-retryable status.
C13_BoundedRetries ==
    routine = "grok" =>
        /\ Len(g_log) <= max_retries
        /\ \A k \in 1..(Len(g_log) - 1) : ~Is200(g_log[k]) /\ ~IsNonRetryable(g_log[k])
        /\ Finished =>
               IF \E k \in 1..Len(g_log) : Is200(g_log[k])
               THEN g_exit = "return"
               ELSE g_exit = "GrokAPIError"

\* the scorer run has made its first evaluation
Scored == routine = "score" /\ pc \in {"scored", "done"}

\* name parts of the identity of the scorer run
ScoredParts == _extract_name_parts(sc_nome, sc_parl)

\* C14: the scorer maps the score to tier and review flag: >= 8 high without
\* review, 4..7 medium with review, < 4 (negative scores included) low with
\* review.
C14_TierMapping ==
    Scored =>
        /\ sc_out.score >= 8 => (sc_out.confidence = "high" /\ sc_out.needs_review = FALSE)
        /\ (4 <= sc_out.score /\ sc_out.score < 8) =>
               (sc_out.confidence = "medium" /\ sc_out.needs_review = TRUE)
        /\ sc_out.score < 4 => (sc_out.confidence = "low" /\ sc_out.needs_review = TRUE)

C14_Witness == Scored /\ sc_out.score < 0 /\ sc_out.confidence = "low"

\* C15: a candidate from which no username can be extracted is scored low with
\* an 'unparseable URL' reason, whatever else the URL contains.
C15_UnparseableIsLow ==
    (Scored /\ sc_out.username = "") =>
        /\ sc_out.confidence = "low"
        /\ \E k \in DOMAIN sc_details : Contains(Lower(sc_details[k]), "unparseable")

\* C16: when the civil name has a first and a last significant token, both are
\* contained in the candidate's username and no suspicious pattern matches, the
\* tier is high (also when the two tokens are the same word).
C16_BothNamesGiveHigh ==
    ( /\ Scored
      /\ ScoredParts.first_name # "" /\ ScoredParts.last_name # ""
      /\ Contains(sc_out.username, ScoredParts.first_name)
      /\ Contains(sc_out.username, ScoredParts.last_name)
      /\ \A k \in 1..5 : ~SuspiciousHits(sc_out.username)[k] )
    => sc_out.confidence = "high"

C16_Witness ==
    /\ Scored
    /\ sc_nome = "José José" /\ sc_url = "https://x.com/jose"
    /\ ScoredParts.first_name = "jose" /\ ScoredParts.last_name = "jose"
    /\ sc_out.score = 8

\* C17: a candidate whose username has a run of four or more digits and contains
\* no name token of the identity is scored low and rejected, however many
\* official keywords appear.
C17_DigitsWithoutNameRejected ==
    ( /\ Scored
      /\ HasDigitRun(sc_out.username)
      /\ \A p \in ScoredParts.all_significant : ~Contains(sc_out.username, p) )
    => (sc_out.confidence = "low" /\ ~sc_out.should_accept)

\* C18: two evaluations on the same URL and names give the same tier, the same
\* score and the same ordered list of reasons.
C18_ScoringDeterministic ==
    (routine = "score" /\ Finished) => (sc_out2 = sc_out /\ sc_details2 = sc_details)

\* C19: _normalize_name applied to its own output returns that output, and the
\* list of significant tokens derived from it is the same.
C19_NormalizeIdempotent ==
    (routine = "norm" /\ Finished) =>
        /\ n_twice = n_out
        /\ SignificantTokens(n_twice) = SignificantTokens(n_out)

C19_Witness ==
    /\ routine = "norm" /\ Finished
    /\ n_in = "DR. DR. Érica Conceição"
    /\ n_out = "erica conceicao"
    /\ SignificantTokens(n_out) = <<"erica", "conceicao">>

\* C20: every candidate URL, whatever sub-path, query string or fragment follows
\* the username, is cleaned to scheme://host/username without a trailing slash.
C20_CleanedToBareProfile ==
    (routine = "clean" /\ Finished) =>
        /\ c_out = BareProfile(c_url)
        /\ ~EndsWith(c_out, "/")

\* C21: once a query has been issued, search_twitter_account ends only by
\* accepting the first candidate (in query order, then link order) whose tier is
\* not low, or by returning None after the last query; a query that met a
\* CAPTCHA page, timed out, failed or gave only low candidates is followed by
\* the next query.
C21_QueriesInOrderUntilAccepted ==
    (q_last # NoneVal /\ pc # "s_query") =>
        /\ searchExit \in {"accepted", "exhausted"}
        /\ searchExit = "accepted" =>
              /\ searchResult.confidence # "low"
              /\ searchResult.url \notin rejected
        /\ searchExit = "exhausted" => (qi = NumQueries /\ searchResult = NoResult)

\* the stored Twitter fields of legislator i are those of its latest resolution
StoredIsLatest(i) ==
    /\ b_db[i].exists
    /\ b_db[i].twitter_url = b_latest[i].twitter_url
    /\ b_db[i].source = b_latest[i].source
    /\ b_db[i].confidence = b_latest[i].confidence
    /\ b_db[i].needs_review = b_latest[i].needs_review

\* C22 as stated: after a legislator's resolution the stored URL, source,
\* confidence and needs-review flag are those of the latest result, for new and
\* existing records and every flag combination.
C22_ResultAlwaysStored ==
    \A i \in Ids : b_latest[i] # NotResolved => StoredIsLatest(i)

\* C22: after a legislator's resolution the stored URL, source, confidence and
\* needs-review flag are those of the latest result, whether or not a URL was
\* found, for senators always and for deputies when the record is new or
\* update_existing is true.
C22_ResultStoredWhenUpdating ==
    \A i \in Ids :
        (b_latest[i] # NotResolved /\ (routine = "xsen" \/ b_update \/ ~b_db0[i].exists))
            => StoredIsLatest(i)

C22_Witness ==
    /\ routine = "xdep" /\ Finished /\ b_update
    /\ b_db0[1].twitter_url = "https://x.com/old_account"
    /\ b_latest[1] # NotResolved /\ b_latest[1].twitter_url = NoneVal
    /\ b_db[1].twitter_url = NoneVal /\ b_db[1].source = NoneVal

C24_ReviewIffNotHigh ==
    (routine \in {"pdep", "psen"} /\ Finished /\ twitter_url # NoneVal) =>
        (metadata.needs_review <=> metadata.confidence \in {"medium", "low"})

\* the scoring step that appended a reason, by the opening words of the reason
StepOf(msg) ==
    IF StartsWith(msg, "Name part") THEN 1
    ELSE IF StartsWith(msg, "Both first name") THEN 2
    ELSE IF StartsWith(msg, "Parliamentary first name") THEN 3
    ELSE IF StartsWith(msg, "Parliamentary last name") THEN 4
    ELSE IF StartsWith(msg, "Official keyword") THEN 5
    ELSE 6

\* number of reasons of the scorer run that step k appended
StepCount(k) == Cardinality({i \in DOMAIN sc_details : StepOf(sc_details[i]) = k})

ScoredUsername == TwitterUsername(Lower(sc_url))

\* C25: the score is 3 per distinct name token in the username, 5 when civil
\* first and last token are both there, 2 for the parliamentary first and 2 for
\* the parliamentary last token, 2 per official keyword in username or URL,
\* minus 3 per suspicious pattern; the reasons list has one entry per
\* contribution, in the order of these steps.
C25_ScoreIsSumOfContributions ==
    Scored =>
        /\ StepCount(1) = Cardinality({p \in ScoredParts.all_significant :
                                          Contains(ScoredUsername, p)})
        /\ StepCount(2) = (IF /\ ScoredParts.first_name # "" /\ ScoredParts.last_name # ""
                              /\ Contains(ScoredUsername, ScoredParts.first_name)
                              /\ Contains(ScoredUsername, ScoredParts.last_name)
                           THEN 1 ELSE 0)
        /\ StepCount(3) = (IF /\ ScoredParts.parl_first # ""
                              /\ Contains(ScoredUsername, ScoredParts.parl_first)
                           THEN 1 ELSE 0)
        /\ StepCount(4) = (IF /\ ScoredParts.parl_last # ""
                              /\ Contains(ScoredUsername, ScoredParts.parl_last)
                           THEN 1 ELSE 0)
        /\ StepCount(5) = Cardinality({w \in Range(official_keywords) :
                                          \/ Contains(ScoredUsername, w)
                                          \/ Contains(Lower(sc_url), w)})
        /\ StepCount(6) = Cardinality({k \in 1..5 : SuspiciousHits(ScoredUsername)[k]})
        /\ sc_out.score = 3 * StepCount(1) + 5 * StepCount(2) + 2 * StepCount(3)
                          + 2 * StepCount(4) + 2 * StepCount(5) - 3 * StepCount(6)
        /\ \A i, j \in DOMAIN sc_details :
              i < j => StepOf(sc_details[i]) <= StepOf(sc_details[j])

C25_Witness ==
    /\ Scored
    /\ sc_nome = "Maria da Silva Souza" /\ sc_parl = "Maria Souza"
    /\ sc_url = "https://twitter.com/souza_oficial/status/123?lang=pt"
    /\ StepCount(1) = 1 /\ StepCount(2) = 0 /\ StepCount(4) = 1 /\ StepCount(5) = 1
    /\ sc_out.score = 7

\* C26: in _make_request the first wait is retry_delay and each later wait is
\* twice the wait before it, whatever made the attempts fail (429, 5xx or a
\* network exception).
C26_WaitsDouble ==
    routine = "grok" =>
        /\ (g_sleeps # <<>> => g_sleeps[1] = retry_delay)
        /\ \A k \in 2..Len(g_sleeps) : g_sleeps[k] = 2 * g_sleeps[k - 1]

C26_Witness ==
    /\ routine = "grok" /\ Finished
    /\ Len(g_log) = 3
    /\ g_log[1].status = 429 /\ g_log[2].kind = "exception" /\ g_log[3].status = 503
    /\ g_sleeps = <<1, 2>>
    /\ g_exit = "GrokAPIError"

\* the host name of a URL, lower-cased
HostOf(url) ==
    IF StartsWith(Lower(url), "https://")
    THEN BeforeChar(SubSeq(Lower(url), 9, Len(url)), "/")
    ELSE IF StartsWith(Lower(url), "http://")
    THEN BeforeChar(SubSeq(Lower(url), 8, Len(url)), "/")
    ELSE BeforeChar(Lower(url), "/")

\* the URL is on twitter.com, x.com or one of their subdomains
OnTwitterHost(url) ==
    \/ HostOf(url) \in {"twitter.com", "x.com"}
    \/ EndsWith(HostOf(url), ".twitter.com")
    \/ EndsWith(HostOf(url), ".x.com")

\* C27: a URL that extract_twitter_info returns as the Twitter account, and a
\* URL from which the scorer's pattern takes a username, is on the host
\* twitter.com or x.com or a subdomain of them.
C27_OnlyTwitterHosts ==
    /\ (routine \in {"pdep", "psen"} /\ twitter_url # NoneVal) => OnTwitterHost(twitter_url)
    /\ (Scored /\ ScoredUsername # "") => OnTwitterHost(sc_url)

\* ids of the fetched list that are valid (the entry carries its id)
ListedIds == {b_list[k] : k \in 1..Len(b_list)} \ {0}

\* C28: extract_deputies with extract_social_media = False (update_existing at
\* its default, True) creates or updates every listed deputy that has an id and
\* leaves it active: the two counts sum to the number of such deputies.
C28_NoSocialMediaStillSaves ==
    (routine = "xdep" /\ Finished /\ ~b_extract /\ b_update) =>
        /\ \A i \in ListedIds : b_db[i].exists /\ b_db[i].is_active
        /\ b_ret[1] + b_ret[2] = Cardinality(ListedIds)

\* C29: when the fetch of the legislator list gives nothing the batch routine
\* returns (0, 0) and every stored legislator keeps its is_active value.
C29_EmptyFetchChangesNothing ==
    (routine \in {"xdep", "xsen"} /\ Finished /\ b_list = <<>>) =>
        /\ b_ret = <<0, 0>>
        /\ \A i \in Ids : b_db[i].is_active = b_db0[i].is_active

\* C30: the confidence and needs_review recorded for a web-search result are
\* those the scorer gave the accepted candidate (pressionaapp) or follow from
\* the tiers of the accepted candidates (blindagemapp); candidates accepted as
\* high are never recorded as low or as needing review.
C30_RecordedTierIsScorerTier ==
    (Finished /\ metadata.source = "google_search") =>
        /\ routine \in {"pdep", "psen"} =>
              /\ metadata.confidence = searchResult.confidence
              /\ metadata.needs_review = searchResult.needs_review
        /\ routine \in {"bdep", "bsen"} =>
              /\ metadata.confidence \in w_tiers
              /\ w_tiers = {"high"} =>
                    (metadata.confidence = "high" /\ ~metadata.needs_review)

====
